---- MODULE Spec2Model ----
(***************************************************************************)
(* A model of re-extensions (src/src/core.py, src/src/smart.py): the       *)
(* bracket scanners, the bracket-aware matcher and the bulk operations     *)
(* built on it.                                                            *)
(*                                                                         *)
(* Strings are sequences of one-character strings.  Python indices are     *)
(* 0-based: string[i] is Char(string, i), string[i:j] is Slice(string,i,j).*)
(* Every operation of the library is a pure function; it is modelled as an *)
(* operator, and one action per operation applies it to the inputs drawn   *)
(* by Init and records the outcome in `result`.                            *)
(***************************************************************************)
EXTENDS Integers, Sequences, FiniteSets, TLC

VARIABLES
    string,     \* the subject string of the call
    pattern,    \* the pattern object of the call
    op,         \* the operation that produced `result` ("init" before a call)
    args,       \* the remaining arguments of the call
    result      \* what the call returned or raised

vars == <<string, pattern, op, args, result>>

----------------------------------------------------------------------------
(* Bounds of the model.                                                    *)

MaxScanLen == 4     \* longest enumerated subject of the scanner
MaxSubjLen == 4     \* longest enumerated subject of the matcher
MaxGroupLen == 4    \* longest enumerated text put at a marker
MaxCount == 2       \* largest count argument of sub

----------------------------------------------------------------------------
(* Values.                                                                 *)

NL == "\n"

\* Outcomes of a call: a Python value or a raised exception.
None == [kind |-> "None"]
IntVal(n) == [kind |-> "int", val |-> n]
StrVal(s) == [kind |-> "str", val |-> s]
Raise(e) == [kind |-> "raise", exc |-> e]

\* Python string[i] for 0 <= i < len(string).
Char(s, i) == s[i + 1]

\* A slice bound as Python normalises it: a negative bound counts from the end,
\* and the bound is clamped to 0..len.
SliceBound(s, i) ==
    LET k == IF i < 0 THEN Len(s) + i ELSE i
    IN IF k < 0 THEN 0 ELSE IF k > Len(s) THEN Len(s) ELSE k

\* Python string[i:j].
Slice(s, i, j) ==
    LET lo == SliceBound(s, i)
        hi == SliceBound(s, j)
    IN IF lo >= hi THEN <<>> ELSE SubSeq(s, lo + 1, hi)

\* Python string[i:].
From(s, i) == Slice(s, i, Len(s))

\* body(v) with v evaluated once, like a local variable assignment.
Only(S) == CHOOSE x \in S : TRUE
Bind(v, body(_)) == Only({body(x) : x \in {v}})

\* All strings over alphabet of length at most n.
StrSet(alphabet, n) == UNION {[1..k -> alphabet] : k \in 0..n}

NoArgs == [start |-> 0, crossline |-> FALSE, flags |-> {}, count |-> 0, repl |-> <<>>]

----------------------------------------------------------------------------
(* core.find_right_bracket, core.find_left_bracket                         *)

\* string[i] with Python's index rules: a negative index counts from the end,
\* an index outside -len..len-1 raises IndexError.
PyIndex(s, i) ==
    IF 0 <= i /\ i < Len(s) THEN StrVal(<<Char(s, i)>>)
    ELSE IF i < 0 /\ -i <= Len(s) THEN StrVal(<<Char(s, Len(s) + i)>>)
    ELSE Raise("IndexError")

\* The right bracket find_right_bracket pairs with `left`, "" for the else branch.
RightOf(left) ==
    IF left = "(" THEN ")"
    ELSE IF left = "[" THEN "]"
    ELSE IF left = "{" THEN "}"
    ELSE ""

\* The left bracket find_left_bracket pairs with `right`, "" for the else branch.
LeftOf(right) ==
    IF right = ")" THEN "("
    ELSE IF right = "]" THEN "["
    ELSE IF right = "}" THEN "{"
    ELSE ""

\* One update of the depth counter: +1 on `same`, -1 on `other`.
CntStepNoNest(cnt, now, same, other) ==
    IF now = other THEN cnt - 1 ELSE cnt

CntStep(cnt, now, same, other) ==
    IF now = same THEN cnt + 1
    ELSE IF now = other THEN cnt - 1
    ELSE cnt

\* The for loop of find_right_bracket from pos_now on; -1 when it runs out or breaks.
RECURSIVE frb_loop(_, _, _, _, _, _)
frb_loop(s, pos_now, cnt, left, right, crossline) ==
    IF pos_now >= Len(s) THEN -1
    ELSE LET now == Char(s, pos_now)
             cnt2 == CntStep(cnt, now, left, right)
         IN IF now # left /\ now # right /\ now = NL /\ ~crossline THEN -1
            ELSE IF cnt2 = 0 THEN pos_now + 1
            ELSE frb_loop(s, pos_now + 1, cnt2, left, right, crossline)

find_right_bracket(s, start, crossline) ==
    LET c == PyIndex(s, start)
    IN IF c.kind = "raise" THEN c
       ELSE LET left == c.val[1]
                right == RightOf(left)
            IN IF right = "" THEN Raise("ValueError")
               ELSE IntVal(frb_loop(s, start + 1, 1, left, right, crossline))

\* The for loop of find_left_bracket, pos_now running down to 0.
RECURSIVE flb_loop(_, _, _, _, _, _)
flb_loop(s, pos_now, cnt, left, right, crossline) ==
    IF pos_now < 0 THEN -1
    ELSE LET now == Char(s, pos_now)
             cnt2 == CntStep(cnt, now, right, left)
         IN IF now # right /\ now # left /\ now = NL /\ ~crossline THEN -1
            ELSE IF cnt2 = 0 THEN pos_now
            ELSE flb_loop(s, pos_now - 1, cnt2, left, right, crossline)

\* A scan that starts one position too far to the right.
flb_scan_from_start_minus_1(s, start, cnt, left, right, crossline) ==
    flb_loop(s, start - 1, cnt, left, right, crossline)

flb_scan(s, start, cnt, left, right, crossline) ==
    flb_loop(s, start - 2, cnt, left, right, crossline)

find_left_bracket(s, start, crossline) ==
    LET c == PyIndex(s, start - 1)
    IN IF c.kind = "raise" THEN c
       ELSE LET right == c.val[1]
                left == LeftOf(right)
            IN IF left = "" THEN Raise("ValueError")
               ELSE IntVal(flb_scan(s, start, 1, left, right, crossline))

----------------------------------------------------------------------------
(* The regular-expression engine (Python's re), for the patterns the model *)
(* draws: a concatenation of literal characters, escaped punctuation,      *)
(* ".", "\Z" and a "(?:...)" wrapper.  "{" and "}" that do not form a      *)
(* repetition count are literal characters, as in Python.                  *)

Tok(t, c) == [t |-> t, c |-> c]

Punctuation == {"(", ")", "[", "]", "{", "}", "<", ">", ".", "\\"}

\* The tokens of the pattern text p from index i on; depth counts open "(?:".
\* Syntax outside the modelled subset compiles to an "err" token (re.error).
RECURSIVE compile_from(_, _, _)
compile_from(p, i, depth) ==
    IF i >= Len(p) THEN (IF depth = 0 THEN <<>> ELSE <<Tok("err", "(")>>)
    ELSE LET c == Char(p, i)
         IN IF c = "\\" THEN
                IF i + 1 >= Len(p) THEN <<Tok("err", c)>>
                ELSE IF Char(p, i + 1) = "Z"
                    THEN <<Tok("end", "")>> \o compile_from(p, i + 2, depth)
                ELSE IF Char(p, i + 1) \in Punctuation
                    THEN <<Tok("lit", Char(p, i + 1))>> \o compile_from(p, i + 2, depth)
                ELSE <<Tok("err", c)>>
            ELSE IF c = "(" THEN
                IF Slice(p, i, i + 3) = <<"(", "?", ":">>
                    THEN compile_from(p, i + 3, depth + 1)
                ELSE <<Tok("err", c)>>
            ELSE IF c = ")" THEN
                IF depth > 0 THEN compile_from(p, i + 1, depth - 1)
                ELSE <<Tok("err", c)>>
            ELSE IF c = "." THEN <<Tok("dot", "")>> \o compile_from(p, i + 1, depth)
            ELSE IF c \in {"[", "*", "+", "?", "^", "$", "|"} THEN <<Tok("err", c)>>
            ELSE <<Tok("lit", c)>> \o compile_from(p, i + 1, depth)

Compile(p) == compile_from(p, 0, 0)

HasErr(toks) == \E k \in 1..Len(toks) : toks[k].t = "err"

\* Match tokens k.. of toks at position pos of s: the end position, or -1.
RECURSIVE match_toks(_, _, _, _, _)
match_toks(toks, k, s, pos, dotall) ==
    IF k > Len(toks) THEN pos
    ELSE LET t == toks[k]
         IN IF t.t = "lit" THEN
                IF pos < Len(s) /\ Char(s, pos) = t.c
                    THEN match_toks(toks, k + 1, s, pos + 1, dotall)
                ELSE -1
            ELSE IF t.t = "dot" THEN
                IF pos < Len(s) /\ (dotall \/ Char(s, pos) # NL)
                    THEN match_toks(toks, k + 1, s, pos + 1, dotall)
                ELSE -1
            ELSE IF t.t = "end" THEN
                IF pos = Len(s) THEN match_toks(toks, k + 1, s, pos, dotall) ELSE -1
            ELSE -1

\* re.match(p, s, flags): the end of the match, -1 for None, -2 for re.error.
re_match(p, s, f) ==
    Bind(Compile(p), LAMBDA toks :
        IF HasErr(toks) THEN -2 ELSE match_toks(toks, 1, s, 0, "DOTALL" \in f))

\* re.search(p, s, flags): <<start, end>> of the leftmost match, <<-1, -1>> for
\* None, <<-2, -2>> for re.error.
re_search(p, s, f) ==
    Bind(Compile(p), LAMBDA toks :
        IF HasErr(toks) THEN <<-2, -2>>
        ELSE Bind({i \in 0..Len(s) : match_toks(toks, 1, s, i, "DOTALL" \in f) >= 0},
                  LAMBDA starts :
            IF starts = {} THEN <<-1, -1>>
            ELSE Bind(CHOOSE x \in starts : \A y \in starts : x <= y, LAMBDA i :
                <<i, match_toks(toks, 1, s, i, "DOTALL" \in f)>>)))

\* The re.Match object of a match with span <<start, end>> in s.
Match(span, s) == [kind |-> "Match", span |-> span, group |-> Slice(s, span[1], span[2])]

\* What re.match / re.search hand back for the engine's answer.
re_match_result(p, s, f) ==
    Bind(re_match(p, s, f), LAMBDA e :
        IF e = -2 THEN Raise("re.error")
        ELSE IF e = -1 THEN None
        ELSE Match(<<0, e>>, s))

re_search_result(p, s, f) ==
    Bind(re_search(p, s, f), LAMBDA r :
        IF r[1] = -2 THEN Raise("re.error")
        ELSE IF r[1] = -1 THEN None
        ELSE Match(r, s))

\* The least index >= 0 at which sub occurs in p (str.find), -1 when none.
Find(p, sub) ==
    LET at == {i \in 0..(Len(p) - Len(sub)) : Slice(p, i, i + Len(sub)) = sub}
    IN IF at = {} THEN -1 ELSE CHOOSE x \in at : \A y \in at : x <= y

\* str.split(sep) for a non-empty sep.
RECURSIVE str_split(_, _)
str_split(p, sep) ==
    LET i == Find(p, sep)
    IN IF i < 0 THEN <<p>>
       ELSE <<Slice(p, 0, i)>> \o str_split(From(p, i + Len(sep)), sep)

\* str.partition(sep)[0] for a non-empty sep.
partition_head(p, sep) ==
    LET i == Find(p, sep)
    IN IF i < 0 THEN p ELSE Slice(p, 0, i)

----------------------------------------------------------------------------
(* Patterns and matches.                                                   *)

\* A plain pattern string.
StrPattern(p) == [cls |-> "str", pattern |-> p]

\* core.SmartPattern(pattern, flags, ignore, ignore_mark)
SmartPattern(p, flags, ignore, ignore_mark) ==
    [cls |-> "core.SmartPattern", pattern |-> p, flags |-> flags,
     ignore |-> ignore, ignore_mark |-> ignore_mark]

\* smart.SmartPattern(pattern, flags, ignore, mark)
smart_SmartPattern(p, flags, ignore, mark) ==
    [cls |-> "smart.SmartPattern", pattern |-> p, flags |-> flags,
     ignore |-> ignore, mark |-> mark]

\* SmartMatch(span, group, groups, groupdict); the patterns of the model have
\* no capturing group, so groups and groupdict are always empty and left out.
SmartMatch(span, group) == [kind |-> "SmartMatch", span |-> span, group |-> group]

IsMatch(r) == r.kind \in {"Match", "SmartMatch"}

\* every left bracket the scanner knows, whatever the pattern's ignore is
AnyLeftBracket(ignore) == {"(", "[", "{"}

\* pattern.ignore[::2], as a set of characters for the `in` test.
LeftChars(ignore) == {ignore[k] : k \in {j \in 1..Len(ignore) : j % 2 = 1}}

\* `matched.end() < len(string) and string[matched.end()] in left`
NextIsLeft(s, e, left) == e < Len(s) /\ Char(s, e) \in left

\* `n < 0` on the scanner's answer
ScanFailedIgnored(n) == n < -1

ScanFailed(n) == n < 0

----------------------------------------------------------------------------
(* smart.match and core.smart_match                                        *)

\* `matched := re.match(temp + splited[-1], string, flags=f)` and the return of
\* smart.match: the SmartMatch, or None.
match_final(temp, last, s, pos_now, substr, f) ==
    Bind(re_match(temp \o last, s, f), LAMBDA e :
        IF e = -2 THEN Raise("re.error")
        ELSE IF e = -1 THEN None
        ELSE SmartMatch(<<0, pos_now + e>>, substr \o Slice(s, 0, e)))

\* The for loop of smart.match over splited[:-1] from segment i on, then the
\* final re.match.
RECURSIVE match_loop(_, _, _, _, _, _, _, _)
match_loop(splited, i, temp, s, pos_now, substr, left, f) ==
    IF i >= Len(splited)
    THEN match_final(temp, splited[Len(splited)], s, pos_now, substr, f)
    ELSE Bind(re_match(temp \o splited[i], s, f), LAMBDA e :
        IF e = -2 THEN Raise("re.error")
        ELSE IF e = -1 THEN None
        ELSE IF NextIsLeft(s, e, left) THEN
            Bind(find_right_bracket(s, e, "DOTALL" \in f), LAMBDA n :
                IF n.kind = "raise" THEN n
                ELSE IF ScanFailed(n.val) THEN None
                ELSE match_loop(splited, i + 1, <<>>, From(s, n.val),
                                pos_now + n.val, substr \o Slice(s, 0, n.val), left, f))
        ELSE match_loop(splited, i + 1, temp \o splited[i], s, pos_now, substr, left, f))

\* match taking its flags from the call alone, not from the pattern.
match_with_call_flags_only(pat, s, flags) ==
    IF pat.cls = "str" THEN re_match_result(pat.pattern, s, flags)
    ELSE IF "ignore_mark" \notin DOMAIN pat THEN Raise("AttributeError")
    ELSE Bind(str_split(pat.pattern, pat.ignore_mark), LAMBDA splited :
        IF Len(splited) = 1 THEN re_match_result(pat.pattern, s, flags)
        ELSE match_loop(splited, 1, <<>>, s, 0, <<>>, LeftChars(pat.ignore),
                        flags))

\* smart.match(pattern, string, flags)
match(pat, s, flags) ==
    IF pat.cls = "str" THEN re_match_result(pat.pattern, s, flags)
    ELSE IF "ignore_mark" \notin DOMAIN pat THEN Raise("AttributeError")
    ELSE Bind(str_split(pat.pattern, pat.ignore_mark), LAMBDA splited :
        IF Len(splited) = 1 THEN re_match_result(pat.pattern, s, pat.flags \cup flags)
        ELSE match_loop(splited, 1, <<>>, s, 0, <<>>, LeftChars(pat.ignore),
                        pat.flags \cup flags))

\* re.match(f"(?:{temp})(?={lookahead})", string, flags=f) with
\* lookahead = "[" + left.replace("[", "\\[") + "]": the end of temp's match when
\* the next character is in the class, -1 for None, -2 for re.error (an empty
\* class "[]" does not compile).
re_match_lookahead(temp, left, s, f) ==
    Bind(re_match(temp, s, f), LAMBDA e :
        IF e = -2 \/ left = {} THEN -2
        ELSE IF e >= 0 /\ e < Len(s) /\ Char(s, e) \in left THEN e
        ELSE -1)

\* `matched := re.match(temp + splited[-1], string, flags=f)` and the return of
\* core.smart_match.
smart_match_final(temp, last, s, pos_now, substr, f) ==
    Bind(re_match(temp \o last, s, f), LAMBDA e :
        IF e = -2 THEN Raise("re.error")
        ELSE IF e = -1 THEN None
        ELSE SmartMatch(<<0, pos_now + e>>, substr \o Slice(s, 0, e)))

\* The for loop of core.smart_match over splited[:-1] from segment i on, then
\* the final re.match.
RECURSIVE smart_match_loop(_, _, _, _, _, _, _, _)
smart_match_loop(splited, i, temp, s, pos_now, substr, left, f) ==
    IF i >= Len(splited)
    THEN smart_match_final(temp, splited[Len(splited)], s, pos_now, substr, f)
    ELSE Bind(re_match_lookahead(temp \o splited[i], left, s, f), LAMBDA e :
        IF e = -2 THEN Raise("re.error")
        ELSE IF e >= 0 THEN
            Bind(find_right_bracket(s, e, "DOTALL" \in f), LAMBDA n :
                IF n.kind = "raise" THEN n
                ELSE IF ScanFailed(n.val) THEN None
                \* temp = "": `re.match(temp, string)` succeeds on every string
                ELSE smart_match_loop(splited, i + 1, <<>>, From(s, n.val),
                                      pos_now + n.val, substr \o Slice(s, 0, n.val),
                                      left, f))
        ELSE Bind(re_match(temp \o splited[i], s, f), LAMBDA e2 :
            IF e2 = -2 THEN Raise("re.error")
            ELSE IF e2 = -1 THEN None
            ELSE smart_match_loop(splited, i + 1, temp \o splited[i], s, pos_now,
                                  substr, left, f)))

\* core.smart_match(pattern, string, flags)
smart_match(pat, s, flags) ==
    IF pat.cls = "str" THEN re_match_result(pat.pattern, s, flags)
    ELSE IF "ignore_mark" \notin DOMAIN pat THEN Raise("AttributeError")
    ELSE Bind(str_split(pat.pattern, pat.ignore_mark), LAMBDA splited :
        IF Len(splited) = 1 THEN re_match_result(pat.pattern, s, pat.flags \cup flags)
        ELSE smart_match_loop(splited, 1, <<>>, s, 0, <<>>, LeftChars(pat.ignore),
                              pat.flags \cup flags))

\* The matcher of module impl ("core" or "smart").
MatchBy(impl, pat, s, flags) ==
    IF impl = "core" THEN smart_match(pat, s, flags) ELSE match(pat, s, flags)

----------------------------------------------------------------------------
(* smart.search and core.smart_search                                      *)

\* `string = string[1:]` after a candidate that did not match
RetryFrom(s) == From(s, 1)

\* The while loop of search / smart_search.
RECURSIVE search_loop(_, _, _, _, _, _, _)
search_loop(impl, pat, to_search, s, pos_now, flags, f) ==
    IF s = <<>> THEN None
    ELSE Bind(re_search(to_search, s, f), LAMBDA searched :
        IF searched[1] = -2 THEN Raise("re.error")
        ELSE IF searched[1] = -1 THEN None
        ELSE Bind(MatchBy(impl, pat, From(s, searched[1]), flags), LAMBDA matched :
            IF matched.kind = "raise" THEN matched
            ELSE IF IsMatch(matched)
                THEN SmartMatch(<<pos_now + searched[1],
                                  pos_now + searched[1] + matched.span[2]>>,
                                matched.group)
            ELSE search_loop(impl, pat, to_search, RetryFrom(From(s, searched[1])),
                             pos_now + searched[1] + 1, flags, f)))

search_impl(impl, pat, s, flags) ==
    IF pat.cls = "str" THEN re_search_result(pat.pattern, s, flags)
    ELSE IF "ignore_mark" \notin DOMAIN pat THEN Raise("AttributeError")
    ELSE IF Find(pat.pattern, pat.ignore_mark) < 0
        THEN re_search_result(pat.pattern, s, pat.flags \cup flags)
    ELSE search_loop(impl, pat, partition_head(pat.pattern, pat.ignore_mark), s, 0,
                     flags, pat.flags \cup flags)

\* core.smart_search(pattern, string, flags)
smart_search(pat, s, flags) == search_impl("core", pat, s, flags)

\* smart.search(pattern, string, flags)
search(pat, s, flags) == search_impl("smart", pat, s, flags)

SearchBy(impl, pat, s, flags) == search_impl(impl, pat, s, flags)

----------------------------------------------------------------------------
(* smart.fullmatch and core.smart_fullmatch                                *)

\* f"(?:{pattern})\\Z"
Anchored(p) == <<"(", "?", ":">> \o p \o <<")", "\\", "Z">>

\* re.fullmatch(pattern, string, flags)
re_fullmatch_result(p, s, f) == re_match_result(Anchored(p), s, f)

fullmatch_impl(impl, pat, s, flags) ==
    IF pat.cls = "str" THEN re_fullmatch_result(pat.pattern, s, flags)
    ELSE MatchBy(impl, StrPattern(Anchored(pat.pattern)), s, pat.flags \cup flags)

\* core.smart_fullmatch(pattern, string, flags)
smart_fullmatch(pat, s, flags) == fullmatch_impl("core", pat, s, flags)

\* smart.fullmatch(pattern, string, flags)
fullmatch(pat, s, flags) == fullmatch_impl("smart", pat, s, flags)

----------------------------------------------------------------------------
(* smart.sub and core.smart_sub, with a string replacement                 *)

\* The while loop of sub / smart_sub.
RECURSIVE sub_loop(_, _, _, _, _, _, _)
sub_loop(impl, pat, repl, s, count, flags, new_string) ==
    Bind(SearchBy(impl, pat, s, flags), LAMBDA searched :
        IF searched.kind = "raise" THEN searched
        ELSE IF ~IsMatch(searched) THEN StrVal(new_string \o s)
        ELSE Bind(new_string \o Slice(s, 0, searched.span[1]) \o repl, LAMBDA out :
            IF s = <<>> \/ count - 1 = 0 THEN StrVal(out \o s)
            ELSE IF searched.span[2] = 0
                THEN sub_loop(impl, pat, repl, From(s, 1), count - 1, flags,
                              out \o <<Char(s, 0)>>)
            ELSE sub_loop(impl, pat, repl, From(s, searched.span[2]), count - 1,
                          flags, out)))

\* sub without the early return on a negative count
sub_impl_without_count_test(impl, pat, repl, s, count, flags) ==
    IF pat.cls = "str" THEN [kind |-> "engine", call |-> "re.sub"]
    ELSE sub_loop(impl, pat, repl, s, count, flags, <<>>)

\* A plain pattern goes to re.sub, the engine's own substitution, which the
\* model leaves opaque.
sub_impl(impl, pat, repl, s, count, flags) ==
    IF pat.cls = "str" THEN [kind |-> "engine", call |-> "re.sub"]
    ELSE IF count < 0 THEN StrVal(s)
    ELSE sub_loop(impl, pat, repl, s, count, flags, <<>>)

\* core.smart_sub(pattern, repl, string, count, flags)
smart_sub(pat, repl, s, count, flags) == sub_impl("core", pat, repl, s, count, flags)

\* smart.sub(pattern, repl, string, count, flags)
sub(pat, repl, s, count, flags) == sub_impl("smart", pat, repl, s, count, flags)

----------------------------------------------------------------------------
(* The scanner under every text of a bracket alphabet.                     *)

ScanAlphabet == {"(", ")", "[", "]", "{", "}", "a", NL}

ExampleTexts ==
    { <<"(", "a", "(", "b", ")", "c", ")">>,
      <<"(", "a", "(", "b">> }

ScanTexts == StrSet(ScanAlphabet, MaxScanLen) \cup ExampleTexts

DefaultPattern ==
    [pattern |-> <<>>, flags |-> {}, ignore |-> <<>>, ignore_mark |-> <<"{", "}">>]

InitScan ==
    /\ string \in ScanTexts
    /\ pattern = DefaultPattern
    /\ op = "init"
    /\ args = NoArgs
    /\ result = None

CallFindRightBracket ==
    \E start \in 0..Len(string), crossline \in BOOLEAN :
        /\ op = "init"
        /\ op' = "find_right_bracket"
        /\ args' = [NoArgs EXCEPT !.start = start, !.crossline = crossline]
        /\ result' = find_right_bracket(string, start, crossline)
        /\ UNCHANGED <<string, pattern>>

CallFindLeftBracket ==
    \E start \in 0..Len(string), crossline \in BOOLEAN :
        /\ op = "init"
        /\ op' = "find_left_bracket"
        /\ args' = [NoArgs EXCEPT !.start = start, !.crossline = crossline]
        /\ result' = find_left_bracket(string, start, crossline)
        /\ UNCHANGED <<string, pattern>>

NextScan == CallFindRightBracket \/ CallFindLeftBracket

SpecScan == InitScan /\ [][NextScan]_vars

----------------------------------------------------------------------------
(* Inputs and actions of the matcher.                                      *)

Mark == <<"{", "}">>            \* the default ignore_mark
DefaultIgnore == <<"(", ")", "[", "]", "{", "}">>   \* the default ignore
DOTALL == {"DOTALL"}
FlagSets == {{}, DOTALL}

CallSmartMatch ==
    \E flags \in FlagSets :
        /\ op = "init"
        /\ op' = "smart_match"
        /\ args' = [NoArgs EXCEPT !.flags = flags]
        /\ result' = smart_match(pattern, string, flags)
        /\ UNCHANGED <<string, pattern>>

CallMatch ==
    \E flags \in FlagSets :
        /\ op = "init"
        /\ op' = "match"
        /\ args' = [NoArgs EXCEPT !.flags = flags]
        /\ result' = match(pattern, string, flags)
        /\ UNCHANGED <<string, pattern>>

CallSmartSearch ==
    \E flags \in FlagSets :
        /\ op = "init"
        /\ op' = "smart_search"
        /\ args' = [NoArgs EXCEPT !.flags = flags]
        /\ result' = smart_search(pattern, string, flags)
        /\ UNCHANGED <<string, pattern>>

CallSearch ==
    \E flags \in FlagSets :
        /\ op = "init"
        /\ op' = "search"
        /\ args' = [NoArgs EXCEPT !.flags = flags]
        /\ result' = search(pattern, string, flags)
        /\ UNCHANGED <<string, pattern>>

CallSmartFullmatch ==
    \E flags \in FlagSets :
        /\ op = "init"
        /\ op' = "smart_fullmatch"
        /\ args' = [NoArgs EXCEPT !.flags = flags]
        /\ result' = smart_fullmatch(pattern, string, flags)
        /\ UNCHANGED <<string, pattern>>

CallFullmatch ==
    \E flags \in FlagSets :
        /\ op = "init"
        /\ op' = "fullmatch"
        /\ args' = [NoArgs EXCEPT !.flags = flags]
        /\ result' = fullmatch(pattern, string, flags)
        /\ UNCHANGED <<string, pattern>>

CallSmartSub ==
    \E count \in (-1)..MaxCount, repl \in {<<"X">>} :
        /\ op = "init"
        /\ op' = "smart_sub"
        /\ args' = [NoArgs EXCEPT !.count = count, !.repl = repl]
        /\ result' = smart_sub(pattern, repl, string, count, {})
        /\ UNCHANGED <<string, pattern>>

CallSub ==
    \E count \in (-1)..MaxCount, repl \in {<<"X">>} :
        /\ op = "init"
        /\ op' = "sub"
        /\ args' = [NoArgs EXCEPT !.count = count, !.repl = repl]
        /\ result' = sub(pattern, repl, string, count, {})
        /\ UNCHANGED <<string, pattern>>

\* The module an operation belongs to.
ImplOf(name) ==
    IF name \in {"smart_match", "smart_search", "smart_fullmatch", "smart_sub"}
    THEN "core" ELSE "smart"

MatchOps == {"smart_match", "match"}
SearchOps == {"smart_search", "search"}
FullmatchOps == {"smart_fullmatch", "fullmatch"}
SubOps == {"smart_sub", "sub"}

----------------------------------------------------------------------------
(* SpecGroup: a pattern S0 M S1 against S0 + B + S1 and S0 + B, for every  *)
(* text B over a bracket alphabet.                                         *)

GroupAlphabet == {"(", ")", "[", "]", "b", NL}

ExampleGroups ==
    { <<"(", "c", ")">>,
      <<"[", "c", "]">>,
      <<"(", "d", "(", "c", ")", "e", ")">>,
      <<"(", "c", ")", "[", "c", "]">> }

GroupTexts == StrSet(GroupAlphabet, MaxGroupLen) \cup ExampleGroups

GroupIgnores == {DefaultIgnore, <<"(", ")">>}

InitGroup ==
    /\ \E S0 \in {<<>>, <<"a">>}, S1 \in {<<>>, <<"b">>}, A \in GroupIgnores,
          B \in GroupTexts :
          \E T \in {S1, <<>>} :
             /\ pattern = SmartPattern(S0 \o Mark \o S1, {}, A, Mark)
             /\ string = S0 \o B \o T
    /\ op = "init"
    /\ args = NoArgs
    /\ result = None

NextGroup == CallSmartMatch \/ CallMatch

SpecGroup == InitGroup /\ [][NextGroup]_vars

----------------------------------------------------------------------------
(* SpecMatch: match, search and fullmatch of both modules, for every       *)
(* subject over a small alphabet.                                          *)

MatchPatternTexts ==
    { <<"a", "{", "}", "b">>,
      <<"{", "}">>,
      <<"a", "{", "}">>,
      <<"{", "}", "b">>,
      <<"a", "{", "}", "\\", "(", "b">>,
      <<"a", "{", "}", "b", "{", "}">>,
      <<"a", ".", "{", "}", "b">> }

MatchAlphabet == {"a", "b", "(", ")", NL}

ExampleSubjects ==
    { <<"a", "(", "c", ")", "b">>,
      <<"a", "(", "c", ")", "b", "x">>,
      <<"a", "(", "d", "(", "c", ")", "e", ")", "b">> }

MatchSubjects == StrSet(MatchAlphabet, MaxSubjLen) \cup ExampleSubjects

\* ignore="<>" with the subject that holds such a group.
AnglePattern == SmartPattern(<<"a", "{", "}", "b">>, {}, <<"<", ">">>, Mark)
AngleSubject == <<"a", "<", "c", ">", "b">>

InitMatch ==
    /\ \/ /\ \E p \in MatchPatternTexts : pattern = SmartPattern(p, {}, DefaultIgnore, Mark)
          /\ string \in MatchSubjects
       \/ /\ pattern = AnglePattern
          /\ string = AngleSubject
    /\ op = "init"
    /\ args = NoArgs
    /\ result = None

NextMatch ==
    \/ CallSmartMatch
    \/ CallMatch
    \/ CallSmartSearch
    \/ CallSearch
    \/ CallSmartFullmatch
    \/ CallFullmatch

SpecMatch == InitMatch /\ [][NextMatch]_vars

----------------------------------------------------------------------------
(* SpecSub: sub of both modules.                                           *)

SubPatternTexts ==
    { <<"a", "{", "}", "b">>,
      <<"a", "{", "}">>,
      <<"{", "}", "b">> }

SubAlphabet == {"a", "b", "(", ")", " "}

SubExamples == { <<"a", "b", " ", "a", "b">> }

SubSubjects == StrSet(SubAlphabet, MaxSubjLen) \cup SubExamples

InitSub ==
    /\ \E p \in SubPatternTexts : pattern = SmartPattern(p, {}, DefaultIgnore, Mark)
    /\ string \in SubSubjects
    /\ op = "init"
    /\ args = NoArgs
    /\ result = None

NextSub == CallSmartSub \/ CallSub

SpecSub == InitSub /\ [][NextSub]_vars

----------------------------------------------------------------------------
(* Claims about the scanner.                                               *)

\* Number of indices q in lo..hi (0-based) with s[q] = c.
CountIn(s, lo, hi, c) == Cardinality({q \in lo..hi : q < Len(s) /\ Char(s, q) = c})

\* The depth counter at index p: 1 at start, +1 per same-type left bracket and
\* -1 per same-type right bracket in start+1..p.
DepthAt(s, start, p) ==
    1 + CountIn(s, start + 1, p, Char(s, start))
      - CountIn(s, start + 1, p, RightOf(Char(s, start)))

\* Indices p > start where the depth is 0.
ClosingIndices(s, start) ==
    {p \in (start + 1)..(Len(s) - 1) : DepthAt(s, start, p) = 0}

Min(S) == CHOOSE x \in S : \A y \in S : x <= y

\* C1: with crossline = true, find_right_bracket on a left bracket returns p+1
\* for the smallest p > start at which the depth counter reaches 0, and -1
\* when there is no such index.
C1_RightBracketIsFirstDepthZero ==
    (/\ op = "find_right_bracket"
     /\ args.crossline
     /\ args.start < Len(string)
     /\ Char(string, args.start) \in {"(", "[", "{"})
    => /\ result.kind = "int"
       /\ result.val = IF ClosingIndices(string, args.start) = {} THEN -1
                       ELSE Min(ClosingIndices(string, args.start)) + 1

\* A nested group was closed: the answer is past an inner right bracket.
C1_Witness ==
    /\ op = "find_right_bracket"
    /\ args.crossline
    /\ string = <<"(", "(", ")", ")">>
    /\ args.start = 0
    /\ result = IntVal(4)

\* C2: when find_right_bracket(t, i, crossline) = r is not -1,
\* find_left_bracket(t, r, crossline) = i, for both values of crossline.
C2_RoundTrip ==
    (/\ op = "find_right_bracket"
     /\ result.kind = "int"
     /\ result.val # -1)
    => find_left_bracket(string, result.val, args.crossline) = IntVal(args.start)

\* A round trip over a nested group that does not start the text.
C2_Witness ==
    /\ op = "find_right_bracket"
    /\ ~args.crossline
    /\ args.start = 1
    /\ result = IntVal(4)
    /\ find_left_bracket(string, 4, FALSE) = IntVal(1)

\* C3: find_right_bracket fails when string[start] is not a left bracket and
\* find_left_bracket fails when no right bracket is at index start-1, for every
\* start in 0..len(string); neither returns an index.
C3_NonBracketRejected ==
    /\ (/\ op = "find_right_bracket"
        /\ ~(args.start < Len(string) /\ Char(string, args.start) \in {"(", "[", "{"}))
       => result.kind = "raise"
    /\ (/\ op = "find_left_bracket"
        /\ ~(args.start >= 1 /\ Char(string, args.start - 1) \in {")", "]", "}"}))
       => result.kind = "raise"

----------------------------------------------------------------------------
(* Claims about match with one marker (SpecGroup).                         *)

LeftBrackets == {"(", "[", "{"}

\* B is one bracket group: it opens with a left bracket and the depth counter
\* of that bracket's type first reaches 0 at B's last character.
IsGroup(B) ==
    /\ B # <<>>
    /\ B[1] \in LeftBrackets
    /\ ClosingIndices(B, 0) # {}
    /\ Min(ClosingIndices(B, 0)) = Len(B) - 1

\* The left brackets of an ignore alphabet "()[]..." : its characters at even
\* (0-based) positions.
OpenersOf(A) == {A[2 * k - 1] : k \in 1..(Len(A) \div 2)}

\* B is one group opened by a left bracket of A.
GroupIn(B, A) == IsGroup(B) /\ B[1] \in OpenersOf(A)

\* B is two consecutive groups of A.
TwoGroups(B, A) ==
    \E k \in 1..(Len(B) - 1) :
        GroupIn(SubSeq(B, 1, k), A) /\ GroupIn(SubSeq(B, k + 1, Len(B)), A)

\* The pattern S0 M S1 of the state, and the B of a subject S0 + B + S1.
MarkAt == CHOOSE i \in 1..Len(pattern.pattern) : pattern.pattern[i] = "{"
S0 == SubSeq(pattern.pattern, 1, MarkAt - 1)
S1 == SubSeq(pattern.pattern, MarkAt + 2, Len(pattern.pattern))
Shaped ==
    /\ Len(string) >= Len(S0) + Len(S1)
    /\ SubSeq(string, 1, Len(S0)) = S0
    /\ SubSeq(string, Len(string) - Len(S1) + 1, Len(string)) = S1
MidB == SubSeq(string, Len(S0) + 1, Len(string) - Len(S1))
TailB == SubSeq(string, Len(S0) + 1, Len(string))

\* s = S0 + B with B a group of A that holds S1 right before its closing bracket.
S1InsideGroup ==
    /\ Len(string) >= Len(S0) + Len(S1) + 2
    /\ SubSeq(string, 1, Len(S0)) = S0
    /\ GroupIn(TailB, pattern.ignore)
    /\ SubSeq(string, Len(string) - Len(S1), Len(string) - 1) = S1

\* B is a group, two groups of A, or S1 lies inside the group: the subjects the
\* pattern must not match.
NoMatchCase ==
    \/ Shaped /\ IsGroup(MidB) /\ MidB[1] \notin OpenersOf(pattern.ignore)
    \/ Shaped /\ TwoGroups(MidB, pattern.ignore)
    \/ S1InsideGroup

WholeSubject == SmartMatch(<<0, Len(string)>>, string)

\* C4 as written: match of S0 M S1 succeeds with matched text s when
\* s = S0 + B + S1 and B is empty or one balanced group opened by a left bracket
\* of A, and returns no match when B is a group whose type is not in A, when B
\* is two consecutive groups, or when S1 lies inside the group.
C4_AsWritten ==
    op \in MatchOps =>
        /\ (Shaped /\ (MidB = <<>> \/ GroupIn(MidB, pattern.ignore)))
              => result = WholeSubject
        /\ NoMatchCase => result = None

\* C4: match of S0 M S1 succeeds with matched text s when s = S0 + B + S1 and B
\* is empty or one balanced group opened by a left bracket of A that holds no
\* newline unless DOTALL is set; and, when S1 is not empty, match returns no
\* match when B is a group whose type is not in A, when B is two consecutive
\* groups, or when S1 lies inside the group.
C4_GroupOrNothing ==
    op \in MatchOps =>
        /\ (/\ Shaped
            /\ MidB = <<>> \/ GroupIn(MidB, pattern.ignore)
            /\ "DOTALL" \in args.flags \/ \A k \in 1..Len(MidB) : MidB[k] # NL)
              => result = WholeSubject
        /\ (S1 # <<>> /\ NoMatchCase) => result = None

\* A nested group between "a" and "b" was matched by smart.match.
C4_Witness ==
    /\ op = "match"
    /\ string = <<"a", "(", "(", ")", ")", "b">>
    /\ pattern.pattern = <<"a", "{", "}", "b">>
    /\ result = SmartMatch(<<0, 6>>, string)

----------------------------------------------------------------------------
(* Claims about match, search and fullmatch (SpecMatch).                   *)

\* C5: for the pattern "a{}b" with ignore="<>", match against "a<c>b" succeeds
\* with matched text "a<c>b" and span (0, 5).
C5_AngleGroupMatched ==
    (op \in MatchOps /\ pattern = AnglePattern /\ string = AngleSubject)
        => result = SmartMatch(<<0, 5>>, AngleSubject)

\* The literal text of a segment: its characters with the escaping backslashes
\* dropped.
RECURSIVE Literal(_)
Literal(seg) ==
    IF seg = <<>> THEN <<>>
    ELSE IF seg[1] = "\\" /\ Len(seg) >= 2 THEN <<seg[2]>> \o Literal(SubSeq(seg, 3, Len(seg)))
    ELSE <<seg[1]>> \o Literal(Tail(seg))

\* The segments hold literal characters only.
IsLiteralPattern(p) == \A k \in 1..Len(p) : p[k] # "."

\* s begins with S_i B_{i+1} S_{i+1} ... B_k S_k, each B empty or one group of A.
RECURSIVE BeginsWith(_, _, _, _)
BeginsWith(segs, i, s, A) ==
    LET lit == Literal(segs[i])
    IN /\ Len(s) >= Len(lit)
       /\ SubSeq(s, 1, Len(lit)) = lit
       /\ \/ i = Len(segs)
          \/ /\ i < Len(segs)
             /\ \E n \in 0..(Len(s) - Len(lit)) :
                   /\ n = 0 \/ GroupIn(SubSeq(s, Len(lit) + 1, Len(lit) + n), A)
                   /\ BeginsWith(segs, i + 1, SubSeq(s, Len(lit) + n + 1, Len(s)), A)

\* The scanner's answer where match calls it after the first segment, or "none"
\* when match does not call it there.
ScanAfterFirstSegment ==
    LET f == pattern.flags \cup args.flags
        e == re_match(str_split(pattern.pattern, Mark)[1], string, f)
    IN IF e >= 0 /\ e < Len(string) /\ Char(string, e) \in LeftBrackets
       THEN find_right_bracket(string, e, "DOTALL" \in f)
       ELSE [kind |-> "none"]

\* C6: for a pattern S0 M S1 ... M Sk with literal segments (a segment may
\* begin with an escaped bracket) and a subject that begins with
\* S0 B1 S1 ... Bk Sk, each Bi empty or one balanced group of the ignore
\* alphabet, match succeeds.  Stated where it is easiest to meet: DOTALL is set,
\* so that no newline blocks a group, and no bracket is left unclosed after
\* the first segment.
C6_MarkerIsNothingOrGroup ==
    (/\ op \in MatchOps
     /\ pattern.ignore = DefaultIgnore
     /\ IsLiteralPattern(pattern.pattern)
     /\ "DOTALL" \in args.flags
     /\ ScanAfterFirstSegment # IntVal(-1)
     /\ BeginsWith(str_split(pattern.pattern, Mark), 1, string, DefaultIgnore))
        => IsMatch(result)

\* C7: with the default ignore alphabet, match and search return a match or
\* the null result for every subject, never an error, and match returns the
\* null result when the scanner returns -1.
C7_UnbalancedNeverRaises ==
    (op \in MatchOps \cup SearchOps /\ pattern.ignore = DefaultIgnore) =>
        /\ result = None \/ IsMatch(result)
        /\ (op \in MatchOps /\ ScanAfterFirstSegment = IntVal(-1)) => result = None

\* smart.match met an unclosed bracket right after the first segment.
C7_Witness ==
    /\ op = "match"
    /\ string = <<"a", "(">>
    /\ pattern.pattern = <<"a", "{", "}">>
    /\ ScanAfterFirstSegment = IntVal(-1)
    /\ result = None

\* Offsets i in 0..len(s) at which match(pattern, s[i:]) succeeds.
MatchOffsets ==
    {i \in 0..Len(string) :
        IsMatch(MatchBy(ImplOf(op), pattern, SubSeq(string, i + 1, Len(string)),
                        args.flags))}

\* C8: search returns a match iff match succeeds at some offset in 0..len(s),
\* and the span is (i0, i0 + e) for the least such offset i0 and the end e of
\* match(pattern, s[i0:]).
C8_SearchIsLeastOffset ==
    (op \in SearchOps /\ pattern.ignore = DefaultIgnore) =>
        IF MatchOffsets = {} THEN result = None
        ELSE LET i0 == Min(MatchOffsets)
                 m == MatchBy(ImplOf(op), pattern, SubSeq(string, i0 + 1, Len(string)),
                              args.flags)
             IN IsMatch(result) /\ result.span = <<i0, i0 + m.span[2]>>

\* C9: fullmatch succeeds iff match succeeds with end = len(s), and then
\* returns the same span and text.
C9_FullmatchIsAnchoredMatch ==
    (op \in FullmatchOps /\ pattern.ignore = DefaultIgnore) =>
        LET m == MatchBy(ImplOf(op), pattern, string, args.flags)
        IN IF IsMatch(m) /\ m.span[2] = Len(string)
           THEN IsMatch(result) /\ result.span = m.span /\ result.group = m.group
           ELSE result = None

----------------------------------------------------------------------------
(* Claims about sub (SpecSub).                                             *)

\* The subject with its first n leftmost non-overlapping matches replaced: the
\* text before each match, the replacement, and after the last replaced match
\* the rest of the subject.  The patterns of SpecSub match no empty text.
RECURSIVE ReplaceFirst(_, _, _, _, _)
ReplaceFirst(impl, pat, repl, s, n) ==
    IF n = 0 THEN s
    ELSE LET m == SearchBy(impl, pat, s, {})
         IN IF ~IsMatch(m) THEN s
            ELSE SubSeq(s, 1, m.span[1]) \o repl
                 \o ReplaceFirst(impl, pat, repl, SubSeq(s, m.span[2] + 1, Len(s)), n - 1)

\* C10: sub with count = n > 0 replaces exactly the first min(n, number of
\* matches) leftmost non-overlapping matches and leaves the rest of the subject
\* untouched.
C10_SubReplacesFirstN ==
    (op \in SubOps /\ args.count > 0) =>
        result = StrVal(ReplaceFirst(ImplOf(op), pattern, args.repl, string, args.count))

\* C11: sub returns the subject unchanged when count < 0, whether or not the
\* pattern matches, and when count = 0 and search finds no match in the subject.
C11_SubLeavesSubject ==
    (/\ op \in SubOps
     /\ \/ args.count < 0
        \/ args.count = 0 /\ ~IsMatch(SearchBy(ImplOf(op), pattern, string, {})))
        => result = StrVal(string)

\* smart.sub got a negative count and a subject in which the pattern matches.
C11_Witness ==
    /\ op = "sub"
    /\ args.count < 0
    /\ string = <<"a", "b", " ", "a", "b">>
    /\ IsMatch(search(pattern, string, {}))
    /\ result = StrVal(string)

----------------------------------------------------------------------------
(* The bulk operations, one loop iteration at a time.                      *)
(*                                                                         *)
(* A bulk operation reassigns its parameter `string` while it scans; the   *)
(* variable `string` is that parameter, args.subject is the string the     *)
(* caller passed, and while the loop runs `result` holds the local         *)
(* variables of the function.                                              *)

ListVal(l) == [kind |-> "list", val |-> l]
TupleVal(a, b) == [kind |-> "tuple", val |-> <<a, b>>]

\* A count that sees no newline.
CountNoNL(s) == 0

\* "\n".count in a string
CountNL(s) == Cardinality({k \in 1..Len(s) : s[k] = NL})

\* len(s) - 1 - s.rfind("\n"): the number of characters after the last newline
\* (rfind gives -1, so len(s), when there is none)
AfterLastNL(s) ==
    Bind({k \in 1..Len(s) : s[k] = NL}, LAMBDA at :
        IF at = {} THEN Len(s) ELSE Len(s) - (CHOOSE x \in at : \A y \in at : x >= y))

\* The local variables of a running loop.
Locals ==
    [kind |-> "running", searched |-> None, new_string |-> <<>>, count |-> 0,
     tmpcnt |-> 0, maxsplit |-> 0, splits |-> <<>>, stored |-> <<>>, finds |-> <<>>,
     nline |-> 1, line_pos |-> 0, total_pos |-> 0, pos_now |-> 0]

\* What one loop iteration leaves: `string`, and the locals or the returned value.
Go(s, loc) == [string |-> s, result |-> loc]
Exit(s, r) == [string |-> s, result |-> r]

\* The arguments of a bulk call.
BulkArgs(subject, count, maxsplit, linemode) ==
    [start |-> 0, crossline |-> FALSE, flags |-> {}, count |-> count, repl |-> <<"X">>,
     maxsplit |-> maxsplit, linemode |-> linemode, subject |-> subject]

\* `string[searched.end() :]`: the slice without the step over an empty match
AfterMatchWithoutSkip(s, searched) == From(s, searched.span[2])

\* `string[1 if searched.end() == 0 else searched.end() :]`
AfterMatch(s, searched) == From(s, IF searched.span[2] = 0 THEN 1 ELSE searched.span[2])

\* smart.findall / core.smart_findall: before the loop
findall_start(pat, s) ==
    IF pat.cls = "str" THEN [kind |-> "engine", call |-> "re.findall"] ELSE Locals

\* smart.findall / core.smart_findall: one iteration of the while loop
findall_step(impl, pat, s, flags, loc) ==
    Bind(SearchBy(impl, pat, s, flags), LAMBDA searched :
        IF searched.kind = "raise" THEN Exit(s, searched)
        ELSE IF ~IsMatch(searched) THEN Exit(s, ListVal(loc.finds))
        ELSE IF s = <<>> THEN Exit(s, ListVal(Append(loc.finds, searched.group)))
        ELSE Go(AfterMatch(s, searched),
                [loc EXCEPT !.finds = Append(@, searched.group)]))

\* core.smart_finditer: nothing is returned for a SmartPattern
smart_finditer(pat, s) ==
    IF pat.cls = "str" THEN [kind |-> "engine", call |-> "re.finditer"] ELSE None

\* smart.finditer: before the loop of _find_generator
finditer_start(pat, s) ==
    IF pat.cls = "str" THEN [kind |-> "engine", call |-> "re.finditer"] ELSE Locals

\* _find_generator yielding the spans of search unshifted, without pos_now.
find_generator_step_without_pos_now(pat, s, flags, loc) ==
    Bind(search(pat, s, flags), LAMBDA searched :
        IF searched.kind = "raise" THEN Exit(s, searched)
        ELSE IF ~IsMatch(searched) THEN Exit(s, ListVal(loc.finds))
        ELSE Bind(Append(loc.finds,
                         SmartMatch(<<searched.span[1],
                                      searched.span[2]>>, searched.group)),
                  LAMBDA yielded :
            IF s = <<>> THEN Exit(s, ListVal(yielded))
            ELSE Go(AfterMatch(s, searched),
                    [loc EXCEPT !.finds = yielded,
                                !.pos_now = @ + (IF searched.span[2] = 0 THEN 1
                                                 ELSE searched.span[2])])))

\* smart._find_generator: one iteration; the matches yielded so far are `finds`
find_generator_step(pat, s, flags, loc) ==
    Bind(search(pat, s, flags), LAMBDA searched :
        IF searched.kind = "raise" THEN Exit(s, searched)
        ELSE IF ~IsMatch(searched) THEN Exit(s, ListVal(loc.finds))
        ELSE Bind(Append(loc.finds,
                         SmartMatch(<<loc.pos_now + searched.span[1],
                                      loc.pos_now + searched.span[2]>>, searched.group)),
                  LAMBDA yielded :
            IF s = <<>> THEN Exit(s, ListVal(yielded))
            ELSE Go(AfterMatch(s, searched),
                    [loc EXCEPT !.finds = yielded,
                                !.pos_now = @ + (IF searched.span[2] = 0 THEN 1
                                                 ELSE searched.span[2])])))

\* smart.sub / core.smart_sub: before the loop
sub_start(pat, s, count) ==
    IF pat.cls = "str" THEN [kind |-> "engine", call |-> "re.sub"]
    ELSE IF count < 0 THEN StrVal(s)
    ELSE [Locals EXCEPT !.count = count]

\* smart.sub / core.smart_sub: one iteration of the while loop
sub_step(impl, pat, repl, s, flags, loc) ==
    Bind(SearchBy(impl, pat, s, flags), LAMBDA searched :
        IF searched.kind = "raise" THEN Exit(s, searched)
        ELSE IF ~IsMatch(searched) THEN Exit(s, StrVal(loc.new_string \o s))
        ELSE Bind(loc.new_string \o Slice(s, 0, searched.span[1]) \o repl, LAMBDA out :
            IF s = <<>> \/ loc.count - 1 = 0 THEN Exit(s, StrVal(out \o s))
            ELSE IF searched.span[2] = 0
                THEN Go(From(s, 1), [loc EXCEPT !.new_string = out \o <<Char(s, 0)>>,
                                                !.count = @ - 1])
            ELSE Go(From(s, searched.span[2]),
                    [loc EXCEPT !.new_string = out, !.count = @ - 1])))

\* smart.subn / core.smart_subn: before the loop
subn_start(pat, s, count) ==
    IF pat.cls = "str" THEN [kind |-> "engine", call |-> "re.subn"]
    ELSE IF count < 0 THEN TupleVal(s, 0)
    ELSE [Locals EXCEPT !.count = count, !.tmpcnt = count]

\* `count - tmpcnt` with the replacements not counted
NoneCounted(count, tmpcnt) == 0

\* `count - tmpcnt`
Performed(count, tmpcnt) == count - tmpcnt

\* smart.subn / core.smart_subn: one iteration of the while loop
subn_step(impl, pat, repl, s, flags, loc) ==
    Bind(SearchBy(impl, pat, s, flags), LAMBDA searched :
        IF searched.kind = "raise" THEN Exit(s, searched)
        ELSE IF ~IsMatch(searched)
            THEN Exit(s, TupleVal(loc.new_string \o s, Performed(loc.count, loc.tmpcnt)))
        ELSE Bind(loc.new_string \o Slice(s, 0, searched.span[1]) \o repl, LAMBDA out :
            IF loc.tmpcnt - 1 = 0 \/ s = <<>>
                THEN Exit(s, TupleVal(out \o s, Performed(loc.count, loc.tmpcnt - 1)))
            ELSE IF searched.span[2] = 0
                THEN Go(From(s, 1), [loc EXCEPT !.new_string = out \o <<Char(s, 0)>>,
                                                !.tmpcnt = @ - 1])
            ELSE Go(From(s, searched.span[2]),
                    [loc EXCEPT !.new_string = out, !.tmpcnt = @ - 1])))

\* `splits[-1] += x`
AddToLast(splits, x) == [splits EXCEPT ![Len(splits)] = @ \o x]

\* split / rsplit / lsplit before the loop with maxsplit left out: no early
\* return and no limit.
split_start_without_maxsplit(impl, pat, s, maxsplit, flags, first) ==
    Bind(SearchBy(impl, pat, s, flags), LAMBDA searched :
        IF searched.kind = "raise" THEN searched
        ELSE IF ~IsMatch(searched) THEN ListVal(<<s>>)
        ELSE [Locals EXCEPT !.searched = searched, !.splits = first])

\* The first statement of split / rsplit / lsplit: the early return, or the
\* locals before the loop (`first` is the initial `splits`).
split_start(impl, pat, s, maxsplit, flags, first) ==
    IF maxsplit < 0 THEN ListVal(<<s>>)
    ELSE Bind(SearchBy(impl, pat, s, flags), LAMBDA searched :
        IF searched.kind = "raise" THEN searched
        ELSE IF ~IsMatch(searched) THEN ListVal(<<s>>)
        ELSE [Locals EXCEPT !.searched = searched, !.maxsplit = maxsplit,
                            !.splits = first])

\* smart.split / core.smart_split: before the loop
smart_split_start(impl, pat, s, maxsplit, flags) ==
    IF pat.cls = "str" THEN [kind |-> "engine", call |-> "re.split"]
    ELSE split_start(impl, pat, s, maxsplit, flags, <<>>)

\* `splits.append(stored + string)`
AppendRest(loc, s) == Append(loc.splits, loc.stored \o s)

\* `splits[-1] += stored + string`
AddRest(loc, s) == AddToLast(loc.splits, loc.stored \o s)

\* The end of an iteration of the split loops: the break on maxsplit and the
\* statement after the loop (rsplit adds to the last element, `add`), or the
\* next search.
split_next(impl, pat, s, flags, loc, add) ==
    IF loc.maxsplit - 1 = 0
    THEN Exit(s, ListVal(IF add THEN AddRest(loc, s) ELSE AppendRest(loc, s)))
    ELSE Bind(SearchBy(impl, pat, s, flags), LAMBDA searched :
        IF searched.kind = "raise" THEN Exit(s, searched)
        ELSE Go(s, [loc EXCEPT !.searched = searched, !.maxsplit = @ - 1]))

\* The loop of split with the matched text kept in the segment.
split_step_keeping_match(impl, pat, s, flags, loc) ==
    IF ~(IsMatch(loc.searched) /\ s # <<>>) THEN
        IF IsMatch(loc.searched)
        THEN Exit(s, ListVal(loc.splits \o <<loc.stored, <<>>>>))
        ELSE Exit(s, ListVal(AppendRest(loc, s)))
    ELSE IF loc.searched.span[2] = 0 THEN
        split_next(impl, pat, From(s, 1), flags,
                   [loc EXCEPT !.splits = Append(@, loc.stored),
                               !.stored = <<Char(s, 0)>>], FALSE)
    ELSE
        split_next(impl, pat, From(s, loc.searched.span[2]), flags,
                   [loc EXCEPT !.splits = Append(@, loc.stored
                                                    \o Slice(s, 0, loc.searched.span[2])),
                               !.stored = <<>>], FALSE)

\* smart.split / core.smart_split: one iteration of the while loop
split_step(impl, pat, s, flags, loc) ==
    IF ~(IsMatch(loc.searched) /\ s # <<>>) THEN
        IF IsMatch(loc.searched)
        THEN Exit(s, ListVal(loc.splits \o <<loc.stored, <<>>>>))
        ELSE Exit(s, ListVal(AppendRest(loc, s)))
    ELSE IF loc.searched.span[2] = 0 THEN
        split_next(impl, pat, From(s, 1), flags,
                   [loc EXCEPT !.splits = Append(@, loc.stored),
                               !.stored = <<Char(s, 0)>>], FALSE)
    ELSE
        split_next(impl, pat, From(s, loc.searched.span[2]), flags,
                   [loc EXCEPT !.splits = Append(@, loc.stored
                                                    \o Slice(s, 0, loc.searched.span[1])),
                               !.stored = <<>>], FALSE)

\* The loop of rsplit with the matched text dropped, as split drops it.
rsplit_step_dropping_match(impl, pat, s, flags, loc) ==
    IF ~(IsMatch(loc.searched) /\ s # <<>>) THEN
        IF IsMatch(loc.searched)
        THEN Exit(s, ListVal(Append(AddToLast(loc.splits, loc.stored), <<>>)))
        ELSE Exit(s, ListVal(AddRest(loc, s)))
    ELSE IF loc.searched.span[2] = 0 THEN
        split_next(impl, pat, From(s, 1), flags,
                   [loc EXCEPT !.splits = Append(AddToLast(@, loc.stored),
                                                 <<>>),
                               !.stored = <<Char(s, 0)>>], TRUE)
    ELSE
        split_next(impl, pat, From(s, loc.searched.span[2]), flags,
                   [loc EXCEPT !.splits =
                                  Append(AddToLast(@, loc.stored
                                                      \o Slice(s, 0, loc.searched.span[1])),
                                         <<>>),
                               !.stored = <<>>], TRUE)

\* smart.rsplit / core.rsplit: one iteration of the while loop
rsplit_step(impl, pat, s, flags, loc) ==
    IF ~(IsMatch(loc.searched) /\ s # <<>>) THEN
        IF IsMatch(loc.searched)
        THEN Exit(s, ListVal(Append(AddToLast(loc.splits, loc.stored), <<>>)))
        ELSE Exit(s, ListVal(AddRest(loc, s)))
    ELSE IF loc.searched.span[2] = 0 THEN
        split_next(impl, pat, From(s, 1), flags,
                   [loc EXCEPT !.splits = Append(AddToLast(@, loc.stored),
                                                 loc.searched.group),
                               !.stored = <<Char(s, 0)>>], TRUE)
    ELSE
        split_next(impl, pat, From(s, loc.searched.span[2]), flags,
                   [loc EXCEPT !.splits =
                                  Append(AddToLast(@, loc.stored
                                                      \o Slice(s, 0, loc.searched.span[1])),
                                         loc.searched.group),
                               !.stored = <<>>], TRUE)

\* smart.lsplit / core.lsplit: before the loop, `stored = string[: searched.start()]`
lsplit_start(impl, pat, s, maxsplit, flags) ==
    Bind(split_start(impl, pat, s, maxsplit, flags, <<>>), LAMBDA loc :
        IF loc.kind = "running"
        THEN [loc EXCEPT !.stored = Slice(s, 0, loc.searched.span[1])]
        ELSE loc)

\* smart.lsplit / core.lsplit: one iteration of the while loop
lsplit_step(impl, pat, s, flags, loc) ==
    IF ~(IsMatch(loc.searched) /\ s # <<>>) THEN
        IF IsMatch(loc.searched)
        THEN Exit(s, ListVal(loc.splits \o <<loc.stored, <<>>>>))
        ELSE Exit(s, ListVal(AppendRest(loc, s)))
    ELSE IF loc.searched.span[2] = 0 THEN
        split_next(impl, pat, From(s, 1), flags,
                   [loc EXCEPT !.splits = Append(@, loc.stored),
                               !.stored = <<Char(s, 0)>>], FALSE)
    ELSE
        split_next(impl, pat, From(s, loc.searched.span[2]), flags,
                   [loc EXCEPT !.splits = Append(@, loc.stored
                                                    \o Slice(s, 0, loc.searched.span[2])),
                               !.stored = <<>>], FALSE)

\* smart.line_findall / core.line_findall: one iteration of the while loop
line_findall_step(impl, pat, s, flags, loc) ==
    Bind(SearchBy(impl, pat, s, flags), LAMBDA searched :
        IF searched.kind = "raise" THEN Exit(s, searched)
        ELSE IF ~IsMatch(searched) THEN Exit(s, ListVal(loc.finds))
        ELSE Bind(loc.nline + CountNL(Slice(s, 0, searched.span[1])), LAMBDA nline :
            Bind(Append(loc.finds, <<nline, searched.group>>), LAMBDA finds :
                IF Len(s) = 0 THEN Exit(s, ListVal(finds))
                ELSE IF searched.span[2] = 0
                    THEN Go(From(s, 1),
                            [loc EXCEPT !.finds = finds,
                                        !.nline = nline + CountNL(searched.group)
                                                  + (IF Char(s, 0) = NL THEN 1 ELSE 0)])
                ELSE Go(From(s, searched.span[2]),
                        [loc EXCEPT !.finds = finds,
                                    !.nline = nline + CountNL(searched.group)]))))

\* The line bookkeeping of line_finditer and of real_findall's linemode for one
\* match: nline and line_pos at the match, the line-local span, and line_pos
\* after the match.
LineLocal(s, searched, loc) ==
    LET left == Slice(s, 0, searched.span[1])
        lc_left == CountNL(left)
        line_pos == IF lc_left > 0 THEN 0 ELSE loc.line_pos
        lastline_pos == AfterLastNL(left)
        width == searched.span[2] - searched.span[1]
    IN [nline |-> loc.nline + lc_left,
        span |-> <<line_pos + lastline_pos, line_pos + lastline_pos + width>>,
        line_pos |-> IF CountNL(searched.group) > 0 THEN AfterLastNL(searched.group)
                     ELSE line_pos + (IF lastline_pos + width > 1
                                      THEN lastline_pos + width ELSE 1)]

\* smart.line_finditer: one iteration of the while loop; the pairs yielded so
\* far are `finds`
line_finditer_step(pat, s, flags, loc) ==
    Bind(search(pat, s, flags), LAMBDA searched :
        IF searched.kind = "raise" THEN Exit(s, searched)
        ELSE IF ~IsMatch(searched) THEN Exit(s, ListVal(loc.finds))
        ELSE Bind(LineLocal(s, searched, loc), LAMBDA ll :
            Bind(Append(loc.finds, <<ll.nline, SmartMatch(ll.span, searched.group)>>),
                 LAMBDA finds :
                IF Len(s) = 0 THEN Exit(s, ListVal(finds))
                ELSE IF searched.span[2] = 0
                    THEN Go(From(s, 1),
                            [loc EXCEPT !.finds = finds,
                                        !.nline = ll.nline + CountNL(searched.group)
                                                  + (IF Char(s, 0) = NL THEN 1 ELSE 0),
                                        !.line_pos = IF Char(s, 0) = NL THEN 0
                                                     ELSE ll.line_pos])
                ELSE Go(From(s, searched.span[2]),
                        [loc EXCEPT !.finds = finds,
                                    !.nline = ll.nline + CountNL(searched.group),
                                    !.line_pos = ll.line_pos]))))

\* core.SmartMatch(span, group), as real_findall calls it: __init__ has four
\* required parameters (span, group, groups, groupdict), so the call raises.
SmartMatchWithoutGroups(span, group) == Raise("TypeError")

\* core.real_findall: one iteration of the while loop
real_findall_step(pat, s, flags, linemode, loc) ==
    Bind(smart_search(pat, s, flags), LAMBDA searched :
        IF searched.kind = "raise" THEN Exit(s, searched)
        ELSE IF ~IsMatch(searched) THEN Exit(s, ListVal(loc.finds))
        ELSE Bind(LineLocal(s, searched, loc), LAMBDA ll :
            Bind(IF linemode THEN SmartMatchWithoutGroups(ll.span, searched.group)
                 ELSE SmartMatchWithoutGroups(<<searched.span[1] + loc.total_pos,
                                                searched.span[2] + loc.total_pos>>,
                                              searched.group),
                 LAMBDA matched :
                IF matched.kind = "raise" THEN Exit(s, matched)
                ELSE Bind([loc EXCEPT
                             !.finds = Append(@, IF linemode THEN <<ll.nline, matched>>
                                                 ELSE matched),
                             !.nline = IF linemode
                                       THEN ll.nline + CountNL(searched.group)
                                       ELSE @,
                             !.line_pos = IF linemode THEN ll.line_pos ELSE @,
                             !.total_pos = IF linemode THEN @
                                           ELSE @ + (IF searched.span[2] > 1
                                                     THEN searched.span[2] ELSE 1)],
                          LAMBDA l2 :
                    IF Len(s) = 0 THEN Exit(s, ListVal(l2.finds))
                    ELSE IF searched.span[2] = 0
                        THEN Go(From(s, 1),
                                [l2 EXCEPT !.nline = @ + (IF Char(s, 0) = NL THEN 1
                                                          ELSE 0)])
                    ELSE Go(From(s, searched.span[2]), l2)))))

----------------------------------------------------------------------------
(* SpecBulk: every bulk operation of both modules, started on a pattern    *)
(* and a subject and then run one loop iteration per step.                 *)

MaxBulkLen == 3     \* longest enumerated subject of a bulk operation
MaxSplit == 2       \* largest maxsplit argument

\* The operations of core.py; the others are smart.py's.
CoreOps ==
    {"smart_findall", "smart_finditer", "smart_sub", "smart_subn", "smart_split",
     "core.rsplit", "core.lsplit", "core.line_findall", "real_findall"}

BulkImplOf(name) == IF name \in CoreOps THEN "core" ELSE "smart"

\* One iteration of the loop of operation o.
bulk_step(o, pat, s, a, loc) ==
    CASE o \in {"smart_findall", "findall"} -> findall_step(BulkImplOf(o), pat, s, a.flags, loc)
      [] o = "finditer" -> find_generator_step(pat, s, a.flags, loc)
      [] o \in {"smart_sub", "sub"} -> sub_step(BulkImplOf(o), pat, a.repl, s, a.flags, loc)
      [] o \in {"smart_subn", "subn"} -> subn_step(BulkImplOf(o), pat, a.repl, s, a.flags, loc)
      [] o \in {"smart_split", "split"} -> split_step(BulkImplOf(o), pat, s, a.flags, loc)
      [] o \in {"core.rsplit", "rsplit"} -> rsplit_step(BulkImplOf(o), pat, s, a.flags, loc)
      [] o \in {"core.lsplit", "lsplit"} -> lsplit_step(BulkImplOf(o), pat, s, a.flags, loc)
      [] o \in {"core.line_findall", "line_findall"} ->
            line_findall_step(BulkImplOf(o), pat, s, a.flags, loc)
      [] o = "line_finditer" -> line_finditer_step(pat, s, a.flags, loc)
      [] o = "real_findall" -> real_findall_step(pat, s, a.flags, a.linemode, loc)

\* The loop of operation o run to its return value.
RECURSIVE bulk_run(_, _, _, _, _)
bulk_run(o, pat, s, a, loc) ==
    IF loc.kind # "running" THEN loc
    ELSE Bind(bulk_step(o, pat, s, a, loc), LAMBDA n :
        bulk_run(o, pat, n.string, a, n.result))

BulkSmartTexts ==
    { <<"a", "{", "}", "b">>,
      <<"{", "}">>,
      <<"a", "{", "}">> }

BulkPlainTexts ==
    { <<"b">>,
      <<>>,
      <<NL, "b">> }

BulkPatterns ==
    {SmartPattern(p, {}, DefaultIgnore, Mark) : p \in BulkSmartTexts}
    \cup {SmartPattern(<<"a", "{", "}">>, DOTALL, DefaultIgnore, Mark)}
    \cup {StrPattern(p) : p \in BulkPlainTexts}

BulkAlphabet == {"a", "b", "(", ")", NL}

BulkExamples ==
    { <<"a", "b", " ", "a", "b">>,
      <<"a", NL, "b", NL, "b">>,
      <<"a", "(", NL, ")", "b">> }

BulkSubjects == StrSet(BulkAlphabet, MaxBulkLen) \cup BulkExamples

InitBulk ==
    /\ pattern \in BulkPatterns
    /\ string \in BulkSubjects
    /\ op = "init"
    /\ args = NoArgs
    /\ result = None

StartSmartFindall ==
    /\ op = "init"
    /\ op' = "smart_findall"
    /\ args' = BulkArgs(string, 0, 0, FALSE)
    /\ result' = findall_start(pattern, string)
    /\ UNCHANGED <<string, pattern>>

StartFindall ==
    /\ op = "init"
    /\ op' = "findall"
    /\ args' = BulkArgs(string, 0, 0, FALSE)
    /\ result' = findall_start(pattern, string)
    /\ UNCHANGED <<string, pattern>>

CallSmartFinditer ==
    /\ op = "init"
    /\ op' = "smart_finditer"
    /\ args' = BulkArgs(string, 0, 0, FALSE)
    /\ result' = smart_finditer(pattern, string)
    /\ UNCHANGED <<string, pattern>>

StartFinditer ==
    /\ op = "init"
    /\ op' = "finditer"
    /\ args' = BulkArgs(string, 0, 0, FALSE)
    /\ result' = finditer_start(pattern, string)
    /\ UNCHANGED <<string, pattern>>

StartSmartSub ==
    \E count \in (-1)..MaxCount :
        /\ op = "init"
        /\ op' = "smart_sub"
        /\ args' = BulkArgs(string, count, 0, FALSE)
        /\ result' = sub_start(pattern, string, count)
        /\ UNCHANGED <<string, pattern>>

StartSub ==
    \E count \in (-1)..MaxCount :
        /\ op = "init"
        /\ op' = "sub"
        /\ args' = BulkArgs(string, count, 0, FALSE)
        /\ result' = sub_start(pattern, string, count)
        /\ UNCHANGED <<string, pattern>>

StartSmartSubn ==
    \E count \in (-1)..MaxCount :
        /\ op = "init"
        /\ op' = "smart_subn"
        /\ args' = BulkArgs(string, count, 0, FALSE)
        /\ result' = subn_start(pattern, string, count)
        /\ UNCHANGED <<string, pattern>>

StartSubn ==
    \E count \in (-1)..MaxCount :
        /\ op = "init"
        /\ op' = "subn"
        /\ args' = BulkArgs(string, count, 0, FALSE)
        /\ result' = subn_start(pattern, string, count)
        /\ UNCHANGED <<string, pattern>>

StartSmartSplit ==
    \E maxsplit \in (-1)..MaxSplit :
        /\ op = "init"
        /\ op' = "smart_split"
        /\ args' = BulkArgs(string, 0, maxsplit, FALSE)
        /\ result' = smart_split_start("core", pattern, string, maxsplit, {})
        /\ UNCHANGED <<string, pattern>>

StartSplit ==
    \E maxsplit \in (-1)..MaxSplit :
        /\ op = "init"
        /\ op' = "split"
        /\ args' = BulkArgs(string, 0, maxsplit, FALSE)
        /\ result' = smart_split_start("smart", pattern, string, maxsplit, {})
        /\ UNCHANGED <<string, pattern>>

StartCoreRsplit ==
    \E maxsplit \in (-1)..MaxSplit :
        /\ op = "init"
        /\ op' = "core.rsplit"
        /\ args' = BulkArgs(string, 0, maxsplit, FALSE)
        /\ result' = split_start("core", pattern, string, maxsplit, {}, <<<<>>>>)
        /\ UNCHANGED <<string, pattern>>

StartRsplit ==
    \E maxsplit \in (-1)..MaxSplit :
        /\ op = "init"
        /\ op' = "rsplit"
        /\ args' = BulkArgs(string, 0, maxsplit, FALSE)
        /\ result' = split_start("smart", pattern, string, maxsplit, {}, <<<<>>>>)
        /\ UNCHANGED <<string, pattern>>

StartCoreLsplit ==
    \E maxsplit \in (-1)..MaxSplit :
        /\ op = "init"
        /\ op' = "core.lsplit"
        /\ args' = BulkArgs(string, 0, maxsplit, FALSE)
        /\ result' = lsplit_start("core", pattern, string, maxsplit, {})
        /\ UNCHANGED <<string, pattern>>

StartLsplit ==
    \E maxsplit \in (-1)..MaxSplit :
        /\ op = "init"
        /\ op' = "lsplit"
        /\ args' = BulkArgs(string, 0, maxsplit, FALSE)
        /\ result' = lsplit_start("smart", pattern, string, maxsplit, {})
        /\ UNCHANGED <<string, pattern>>

StartCoreLineFindall ==
    /\ op = "init"
    /\ op' = "core.line_findall"
    /\ args' = BulkArgs(string, 0, 0, FALSE)
    /\ result' = Locals
    /\ UNCHANGED <<string, pattern>>

StartLineFindall ==
    /\ op = "init"
    /\ op' = "line_findall"
    /\ args' = BulkArgs(string, 0, 0, FALSE)
    /\ result' = Locals
    /\ UNCHANGED <<string, pattern>>

StartLineFinditer ==
    /\ op = "init"
    /\ op' = "line_finditer"
    /\ args' = BulkArgs(string, 0, 0, FALSE)
    /\ result' = Locals
    /\ UNCHANGED <<string, pattern>>

StartRealFindall ==
    \E linemode \in BOOLEAN :
        /\ op = "init"
        /\ op' = "real_findall"
        /\ args' = BulkArgs(string, 0, 0, linemode)
        /\ result' = Locals
        /\ UNCHANGED <<string, pattern>>

\* One iteration of the running loop.
LoopIteration ==
    /\ result.kind = "running"
    /\ string' = bulk_step(op, pattern, string, args, result).string
    /\ result' = bulk_step(op, pattern, string, args, result).result
    /\ UNCHANGED <<pattern, op, args>>

NextBulk ==
    \/ StartSmartFindall
    \/ StartFindall
    \/ CallSmartFinditer
    \/ StartFinditer
    \/ StartSmartSub
    \/ StartSub
    \/ StartSmartSubn
    \/ StartSubn
    \/ StartSmartSplit
    \/ StartSplit
    \/ StartCoreRsplit
    \/ StartRsplit
    \/ StartCoreLsplit
    \/ StartLsplit
    \/ StartCoreLineFindall
    \/ StartLineFindall
    \/ StartLineFinditer
    \/ StartRealFindall
    \/ LoopIteration

SpecBulk == InitBulk /\ [][NextBulk]_vars

\* LoopIteration is enabled exactly while the loop runs, and every iteration
\* changes `string` or `result`.
LoopEnabledWhenRunning == (result.kind = "running") <=> ENABLED <<LoopIteration>>_vars

\* A loop that is running keeps running: the interpreter executes the next
\* iteration.  This is weak fairness of LoopIteration, WF_vars(LoopIteration),
\* written out with the enabling condition of LoopEnabledWhenRunning.
FairBulk ==
    SpecBulk /\ ([]<>(result.kind # "running") \/ []<><<LoopIteration>>_vars)

----------------------------------------------------------------------------
(* Claims about the bulk operations.                                       *)

SubnOps == {"smart_subn", "subn"}

\* The loop of the operation has returned.
Finished == op # "init" /\ result.kind # "running"

\* The pattern argument is a SmartPattern.
IsSmart(pat) == pat.cls # "str"

\* findall of the module of operation o on the caller's subject.
FindallOf(o, pat, s) ==
    bulk_run(IF BulkImplOf(o) = "core" THEN "smart_findall" ELSE "findall",
             pat, s, BulkArgs(s, 0, 0, FALSE), findall_start(pat, s))

\* sub of the module of operation o with the arguments of the call.
SubOf(o, pat, s, count) ==
    bulk_run(IF BulkImplOf(o) = "core" THEN "smart_sub" ELSE "sub",
             pat, s, BulkArgs(s, count, 0, FALSE), sub_start(pat, s, count))

\* The number of replacements a call with this count has to report when the
\* scan finds n matches.
Replacements(count, n) ==
    IF count < 0 THEN 0
    ELSE IF count = 0 THEN n
    ELSE IF count < n THEN count ELSE n

\* C12: for a Smart pattern subn returns a pair whose second component is the
\* number of replacements performed (the number of matches findall's scan finds
\* when count = 0, min(count, number of matches) when count > 0, 0 when
\* count < 0) and whose first component is sub's result for the same arguments.
C12_SubnCountsReplacements ==
    (op \in SubnOps /\ IsSmart(pattern) /\ Finished) =>
        /\ result.kind = "tuple"
        /\ result.val[2] =
              Replacements(args.count, Len(FindallOf(op, pattern, args.subject).val))
        /\ StrVal(result.val[1]) = SubOf(op, pattern, args.subject, args.count)

\* subn("a{}b", "X", "ab ab") has returned with two replacements counted.
C12_Witness ==
    /\ op = "subn"
    /\ Finished
    /\ args.subject = <<"a", "b", " ", "a", "b">>
    /\ args.count = 0
    /\ result = TupleVal(<<"X", " ", "X">>, 2)

SplitOps == {"smart_split", "split", "core.rsplit", "rsplit", "core.lsplit", "lsplit"}

\* s ends with t.
EndsWith(s, t) == Len(t) <= Len(s) /\ SubSeq(s, Len(s) - Len(t) + 1, Len(s)) = t

\* The number of matches the scan of findall finds in the caller's subject.
Matches(o, pat, s) == Len(FindallOf(o, pat, s).val)

\* C13: split, rsplit and lsplit honour maxsplit for a Smart pattern.  With
\* maxsplit < 0 the result is [subject]; with maxsplit = m > 0 at most m splits
\* are made (at most m + 1 elements) and the last element ends with the whole
\* unscanned remainder; with maxsplit = 0 every match of the scan splits.
C13_MaxsplitHonoured ==
    (op \in SplitOps /\ IsSmart(pattern) /\ Finished) =>
        /\ result.kind = "list"
        /\ args.maxsplit < 0 => result.val = <<args.subject>>
        /\ args.maxsplit > 0 =>
              /\ Len(result.val) <= args.maxsplit + 1
              /\ EndsWith(result.val[Len(result.val)], string)
        /\ args.maxsplit = 0 =>
              Len(result.val) = Matches(op, pattern, args.subject) + 1

\* split with maxsplit = 1 stopped after one split although the remainder
\* holds another match.
C13_Witness ==
    /\ op = "split"
    /\ Finished
    /\ args.maxsplit = 1
    /\ args.subject = <<"a", "b", " ", "a", "b">>
    /\ string = <<" ", "a", "b">>
    /\ result = ListVal(<< <<>>, <<" ", "a", "b">> >>)

\* The spans, in the caller's subject, of the matches a left-to-right scan
\* finds: each search starts where the previous match ended (one character
\* further after an empty match at the front).
RECURSIVE Spans(_, _, _, _)
Spans(impl, pat, s, offset) ==
    Bind(SearchBy(impl, pat, s, {}), LAMBDA m :
        IF ~IsMatch(m) \/ s = <<>> THEN
            IF IsMatch(m) THEN << <<offset + m.span[1], offset + m.span[2]>> >> ELSE <<>>
        ELSE Bind(IF m.span[2] = 0 THEN 1 ELSE m.span[2], LAMBDA n :
            << <<offset + m.span[1], offset + m.span[2]>> >>
                \o Spans(impl, pat, From(s, n), offset + n)))

\* The pattern matches no empty text.
NeverZeroWidth(impl, pat) == ~IsMatch(MatchBy(impl, pat, <<>>, {}))

\* The concatenation of a sequence of strings.
RECURSIVE Concat(_)
Concat(l) == IF l = <<>> THEN <<>> ELSE Head(l) \o Concat(Tail(l))

\* segs[1] + ms[1] + segs[2] + ... + ms[n] + segs[n + 1]
RECURSIVE Interleave(_, _)
Interleave(segs, ms) ==
    IF ms = <<>> \/ segs = <<>> THEN Concat(segs)
    ELSE Head(segs) \o Head(ms) \o Interleave(Tail(segs), Tail(ms))

\* s without the characters inside one of the spans.
Removed(s, spans) ==
    Concat([k \in 1..Len(s) |->
              IF \E j \in 1..Len(spans) : spans[j][1] < k /\ k <= spans[j][2]
              THEN <<>> ELSE <<s[k]>>])

\* C14: for a Smart pattern that matches no empty text and maxsplit = 0, split
\* returns (number of matches + 1) segments, segment j is the subject text
\* between the end of match j - 1 and the start of match j (the last one runs to
\* the end of the subject and is empty when the subject ends with a match), the
\* segments concatenated are the subject without the matched texts, and
\* interleaved with findall's matched texts they give back the subject.
C14_SplitSegments ==
    (/\ op \in {"smart_split", "split"}
     /\ IsSmart(pattern)
     /\ Finished
     /\ args.maxsplit = 0
     /\ NeverZeroWidth(BulkImplOf(op), pattern)) =>
        LET s == args.subject
            sp == Spans(BulkImplOf(op), pattern, s, 0)
            n == Len(sp)
        IN /\ result.kind = "list"
           /\ Len(result.val) = n + 1
           /\ \A j \in 1..(n + 1) :
                 result.val[j] = Slice(s, IF j = 1 THEN 0 ELSE sp[j - 1][2],
                                          IF j = n + 1 THEN Len(s) ELSE sp[j][1])
           /\ Concat(result.val) = Removed(s, sp)
           /\ FindallOf(op, pattern, s).kind = "list"
           /\ Len(FindallOf(op, pattern, s).val) = n
           /\ Interleave(result.val, FindallOf(op, pattern, s).val) = s

\* split("a{}b", "ab ab") has returned "", " " and the trailing "".
C14_Witness ==
    /\ op = "split"
    /\ Finished
    /\ args.maxsplit = 0
    /\ pattern.pattern = <<"a", "{", "}", "b">>
    /\ args.subject = <<"a", "b", " ", "a", "b">>
    /\ result = ListVal(<< <<>>, <<" ">>, <<>> >>)

RsplitOps == {"core.rsplit", "rsplit"}

\* The number of matches a call with this maxsplit splits at when the scan
\* finds n.
SplitsMade(maxsplit, n) ==
    IF maxsplit < 0 THEN 0
    ELSE IF maxsplit = 0 THEN n
    ELSE IF maxsplit < n THEN maxsplit ELSE n

\* C15: for every pattern, subject and maxsplit the elements of rsplit
\* concatenated are the subject; the first element is the text before the first
\* match and every later element is the text of a match followed by the
\* unmatched text on its right.
C15_RsplitRoundTrip ==
    (op \in RsplitOps /\ Finished) =>
        LET s == args.subject
            sp == Spans(BulkImplOf(op), pattern, s, 0)
            k == SplitsMade(args.maxsplit, Len(sp))
        IN /\ result.kind = "list"
           /\ Concat(result.val) = s
           /\ Len(result.val) = k + 1
           /\ result.val[1] = Slice(s, 0, IF k = 0 THEN Len(s) ELSE sp[1][1])
           /\ \A j \in 1..k :
                 result.val[j + 1] =
                    Slice(s, sp[j][1], sp[j][2])
                    \o Slice(s, sp[j][2], IF j = k THEN Len(s) ELSE sp[j + 1][1])

\* rsplit of a plain pattern: "a\nb\nb" at "b" gives "a\n", "b\n", "b".
C15_Witness ==
    /\ op = "rsplit"
    /\ Finished
    /\ pattern = StrPattern(<<"b">>)
    /\ args.maxsplit = 0
    /\ args.subject = <<"a", NL, "b", NL, "b">>
    /\ result = ListVal(<< <<"a", NL>>, <<"b", NL>>, <<"b">> >>)

LsplitOps == {"core.lsplit", "lsplit"}

\* C16: for every pattern, subject and maxsplit the elements of lsplit
\* concatenated are the subject, also when the first match starts after index
\* 0; each element but the last is the unmatched text on the left of a match
\* followed by the text of that match.
C16_LsplitRoundTrip ==
    (op \in LsplitOps /\ Finished) =>
        LET s == args.subject
            sp == Spans(BulkImplOf(op), pattern, s, 0)
            k == SplitsMade(args.maxsplit, Len(sp))
        IN /\ result.kind = "list"
           /\ Concat(result.val) = s
           /\ \A j \in 1..k :
                 j < Len(result.val) =>
                    result.val[j] =
                       Slice(s, IF j = 1 THEN 0 ELSE sp[j - 1][2], sp[j][1])
                       \o Slice(s, sp[j][1], sp[j][2])

Running == result.kind = "running"

\* The number of iterations the running loop still makes, counted up to
\* limit + 1.
RECURSIVE Iterations(_, _, _, _, _, _)
Iterations(o, pat, s, a, loc, limit) ==
    IF loc.kind # "running" THEN 0
    ELSE IF limit = 0 THEN 1
    ELSE Bind(bulk_step(o, pat, s, a, loc), LAMBDA n :
        1 + Iterations(o, pat, n.string, a, n.result, limit - 1))

\* C17: every bulk operation terminates on every pattern and subject: an
\* iteration that does not exit leaves a strictly shorter remaining subject, a
\* running loop makes at most len(remaining subject) + 1 further iterations,
\* and a running loop eventually returns.
C17_ForwardProgress ==
    /\ [][(Running /\ result'.kind = "running") => Len(string') < Len(string)]_vars
    /\ [](Running =>
            Iterations(op, pattern, string, args, result, Len(string) + 1)
                <= Len(string) + 1)
    /\ (Running ~> ~Running)

\* rsplit with the plain pattern "", which matches the empty string at every
\* position, has returned from "ab".
C17_Witness ==
    /\ op = "rsplit"
    /\ Finished
    /\ pattern = StrPattern(<<>>)
    /\ args.subject = <<"a", "b">>
    /\ args.maxsplit = 0
    /\ result = ListVal(<< <<>>, <<"a">>, <<"b">>, <<>> >>)

\* The match the running iteration works on: the split family searched it at
\* the end of the previous iteration, the others search at the top of the loop.
Found ==
    IF op \in SplitOps THEN result.searched
    ELSE SearchBy(BulkImplOf(op), pattern, string, args.flags)

\* The spans a finished finditer has yielded are pairwise different.
NoSpanTwice ==
    (op = "finditer" /\ Finished /\ result.kind = "list") =>
        \A i, j \in 1..Len(result.val) :
            result.val[i].span = result.val[j].span => i = j

\* C18: after a zero-width match (start = end = p) in the remaining subject,
\* the next search begins exactly one character after p, also when p > 0, and
\* so no match position is reported twice.
C18_ZeroWidthTieBreak ==
    /\ [][(/\ Running
           /\ result'.kind = "running"
           /\ IsMatch(Found)
           /\ Found.span[1] = Found.span[2])
              => string' = From(string, Found.span[1] + 1)]_vars
    /\ []NoSpanTwice

LineFindallOps == {"core.line_findall", "line_findall"}

\* The number of newline characters of s before index p.
NewlinesBefore(s, p) == Cardinality({k \in 1..p : s[k] = NL})

\* C19: every pair (n, text) of line_findall has n = 1 + the number of newline
\* characters of the original subject before the start of its match, and text
\* is the matched text; the matches are those of the left-to-right scan.
C19_LineNumbers ==
    (op \in LineFindallOps /\ Finished) =>
        LET s == args.subject
            sp == Spans(BulkImplOf(op), pattern, s, 0)
        IN /\ result.kind = "list"
           /\ Len(result.val) = Len(sp)
           /\ \A j \in 1..Len(sp) :
                 /\ result.val[j][1] = 1 + NewlinesBefore(s, sp[j][1])
                 /\ result.val[j][2] = Slice(s, sp[j][1], sp[j][2])

\* line_findall("b", "a\nb\nb") has returned [(2, "b"), (3, "b")].
C19_Witness ==
    /\ op = "line_findall"
    /\ Finished
    /\ pattern = StrPattern(<<"b">>)
    /\ args.subject = <<"a", NL, "b", NL, "b">>
    /\ result = ListVal(<< <<2, <<"b">>>>, <<3, <<"b">>>> >>)

\* The index at which the line of index p starts: the one after the last
\* newline before p, or 0.
LineStart(s, p) ==
    Bind({k \in 1..p : s[k] = NL} \cup {0}, LAMBDA at :
        CHOOSE x \in at : \A y \in at : x >= y)

\* The pairs (n, m) of a returned list have line-local spans: m.start() is the
\* distance of the match from the start of its line in the original subject and
\* m.end() is m.start() + len(matched text).
LineLocalSpans ==
    LET s == args.subject
        sp == Spans(BulkImplOf(op), pattern, s, 0)
    IN /\ result.kind = "list"
       /\ Len(result.val) = Len(sp)
       /\ \A j \in 1..Len(sp) :
             /\ result.val[j][2].group = Slice(s, sp[j][1], sp[j][2])
             /\ result.val[j][2].span[1] = sp[j][1] - LineStart(s, sp[j][1])
             /\ result.val[j][2].span[2] =
                   result.val[j][2].span[1] + Len(result.val[j][2].group)

\* C20: every (n, m) yielded by line_finditer and every (n, m) returned by
\* real_findall with linemode = true has a line-local span; the column restarts
\* at 0 after every newline, a newline skipped after a zero-width match included.
C20_LineLocalSpans ==
    (/\ \/ op = "line_finditer"
        \/ op = "real_findall" /\ args.linemode
     /\ Finished) => LineLocalSpans

\* The part of C20 about line_finditer alone.
C20_LineFinditerSpans == (op = "line_finditer" /\ Finished) => LineLocalSpans

\* C21: real_findall with linemode = false returns one match per match of the
\* scan, each with a span in the coordinates of the original subject
\* (subject[start:end] is the matched text), in increasing order; it does not
\* fail when the pattern matches.
C21_RealFindallAbsolute ==
    (op = "real_findall" /\ ~args.linemode /\ Finished) =>
        LET s == args.subject
            sp == Spans("core", pattern, s, 0)
        IN /\ result.kind = "list"
           /\ Len(result.val) = Len(sp)
           /\ \A j \in 1..Len(result.val) :
                 /\ result.val[j].group
                       = Slice(s, result.val[j].span[1], result.val[j].span[2])
                 /\ j > 1 => result.val[j - 1].span[1] <= result.val[j].span[1]

----------------------------------------------------------------------------
(* SpecPattern: a SmartPattern is constructed by either module from its     *)
(* arguments and then handed to the matchers.                               *)

MaxBuiltLen == 2    \* longest enumerated subject given to a constructed pattern

\* Pattern texts written with the default marker and with the marker "<>".
BuiltTexts ==
    { <<"a", "{", "}", "b">>,
      <<"a", "<", ">", "b">>,
      <<"a", "b">> }

\* ignore arguments: the default, one pair, none, and two of odd length.
BuiltIgnores == {DefaultIgnore, <<"(", ")">>, <<>>, <<"(", ")", "[">>, <<"(">>}

BuiltMarks == {Mark, <<"<", ">">>}

BuiltSubjects ==
    StrSet({"a", "b", "(", ")"}, MaxBuiltLen)
    \cup { <<"a", "(", "c", ")", "b">>, <<"a", "[", "c", "]", "b">> }

InitPattern ==
    /\ pattern = None
    /\ string \in BuiltSubjects
    /\ op = "new"
    /\ args = NoArgs
    /\ result = None

\* core.SmartPattern(p, flags, ignore, ignore_mark): __init__ stores its
\* arguments.
ConstructCore ==
    \E p \in BuiltTexts, flags \in FlagSets, ignore \in BuiltIgnores, m \in BuiltMarks :
        /\ op = "new"
        /\ op' = "init"
        /\ pattern' = SmartPattern(p, flags, ignore, m)
        /\ UNCHANGED <<string, args, result>>

\* smart.SmartPattern(p, flags, ignore, mark): __init__ stores its arguments.
ConstructSmart ==
    \E p \in BuiltTexts, flags \in FlagSets, ignore \in BuiltIgnores, m \in BuiltMarks :
        /\ op = "new"
        /\ op' = "init"
        /\ pattern' = smart_SmartPattern(p, flags, ignore, m)
        /\ UNCHANGED <<string, args, result>>

NextPattern ==
    \/ ConstructCore
    \/ ConstructSmart
    \/ CallSmartMatch
    \/ CallMatch
    \/ CallSmartSearch
    \/ CallSearch

SpecPattern == InitPattern /\ [][NextPattern]_vars

IsSmartPattern(pat) == pat.cls \in {"core.SmartPattern", "smart.SmartPattern"}

\* C22: a SmartPattern with an ignore alphabet of odd length is rejected at
\* construction, so every SmartPattern that exists has an ignore alphabet of
\* even length.
C22_IgnoreHasEvenLength ==
    (pattern # None /\ IsSmartPattern(pattern)) => Len(pattern.ignore) % 2 = 0

\* end - start = len(text) and subject[start:end] = text
SpanHoldsText(m, s) ==
    /\ m.span[2] - m.span[1] = Len(m.group)
    /\ Slice(s, m.span[1], m.span[2]) = m.group

----------------------------------------------------------------------------
(* SpecSpan: match and search of both modules and smart.finditer on the    *)
(* patterns and subjects of SpecMatch.                                     *)

NextSpan ==
    \/ CallSmartMatch
    \/ CallMatch
    \/ CallSmartSearch
    \/ CallSearch
    \/ StartFinditer
    \/ LoopIteration

SpecSpan == InitMatch /\ [][NextSpan]_vars

\* C23: every match returned by match, search or finditer for a Smart pattern
\* has end - start = len(matched text) and subject[start:end] = matched text,
\* the subject being the string passed to the call; match starts at 0.
C23_AbsoluteSpans ==
    /\ (op \in MatchOps \cup SearchOps /\ IsSmart(pattern) /\ IsMatch(result)) =>
          /\ SpanHoldsText(result, string)
          /\ op \in MatchOps => result.span[1] = 0
    /\ (op = "finditer" /\ IsSmart(pattern) /\ Finished /\ result.kind = "list") =>
          \A j \in 1..Len(result.val) : SpanHoldsText(result.val[j], args.subject)

\* finditer("a{}b", "abab") has yielded the spans (0, 2) and (2, 4).
C23_Witness ==
    /\ op = "finditer"
    /\ Finished
    /\ args.subject = <<"a", "b", "a", "b">>
    /\ result = ListVal(<<SmartMatch(<<0, 2>>, <<"a", "b">>),
                          SmartMatch(<<2, 4>>, <<"a", "b">>)>>)

\* The texts of a list of match objects.
RECURSIVE Groups(_)
Groups(ms) == IF ms = <<>> THEN <<>> ELSE <<ms[1].group>> \o Groups(Tail(ms))

\* C24: for a Smart pattern, smart.finditer and core.smart_finditer return an
\* iterable that yields one match per element of findall, in order and with
\* the same text, each starting at or after the end of the one before.
C24_FinditerAgreesWithFindall ==
    (op \in {"finditer", "smart_finditer"} /\ IsSmart(pattern) /\ Finished) =>
        LET all == FindallOf(op, pattern, args.subject)
        IN all.kind = "list" =>
              /\ result.kind = "list"
              /\ Groups(result.val) = all.val
              /\ \A j \in 2..Len(result.val) :
                    result.val[j].span[1] >= result.val[j - 1].span[2]

\* Two outcomes are the same match, the same null result or the same error.
SameOutcome(a, b) ==
    IF IsMatch(a) /\ IsMatch(b) THEN a.span = b.span /\ a.group = b.group
    ELSE ~IsMatch(a) /\ ~IsMatch(b) /\ a = b

\* C25: for every Smart pattern and subject, core.smart_match and smart.match
\* both fail or both succeed with the same span and text, and likewise
\* core.smart_search and smart.search.
C25_ImplementationsEquivalent ==
    (op \in MatchOps \cup SearchOps /\ IsSmart(pattern)) =>
        /\ op \in MatchOps =>
              SameOutcome(smart_match(pattern, string, args.flags),
                          match(pattern, string, args.flags))
        /\ op \in SearchOps =>
              SameOutcome(search_impl("core", pattern, string, args.flags),
                          search_impl("smart", pattern, string, args.flags))

----------------------------------------------------------------------------
(* SpecNewline: the pattern a{}b, with and without DOTALL among its own    *)
(* flags, against "a" + B + "b" for every text B over a bracket alphabet,  *)
(* and the scanner on the same subjects.                                   *)

InitNewline ==
    /\ \E pflags \in FlagSets, B \in GroupTexts :
          /\ pattern = SmartPattern(<<"a">> \o Mark \o <<"b">>, pflags, DefaultIgnore, Mark)
          /\ string = <<"a">> \o B \o <<"b">>
    /\ op = "init"
    /\ args = NoArgs
    /\ result = None

NextNewline == CallSmartMatch \/ CallMatch \/ CallFindRightBracket

SpecNewline == InitNewline /\ [][NextNewline]_vars

\* Every position of s[start .. k] lies inside the group opened at `start`.
InsideUpTo(s, start, k) == \A j \in start..k : DepthAt(s, start, j) >= 1

\* The group opened at `start` closes somewhere in s.
Closes(s, start) == \E k \in start..(Len(s) - 1) : DepthAt(s, start, k) = 0

\* A newline occurs before the depth of the group opened at `start` returns to 0.
NewlineBeforeClose(s, start) ==
    \E k \in start..(Len(s) - 1) : Char(s, k) = NL /\ InsideUpTo(s, start, k)

\* The index past the bracket that closes the group opened at `start`.
CloseOf(s, start) ==
    1 + CHOOSE k \in start..(Len(s) - 1) :
            DepthAt(s, start, k) = 0 /\ InsideUpTo(s, start, k - 1)

\* The subject holds at the marker of a{}b a group that closes after a newline.
GroupWithNewlineAtMarker ==
    /\ Len(string) > 1
    /\ RightOf(Char(string, 1)) # ""
    /\ Closes(string, 1)
    /\ NewlineBeforeClose(string, 1)

\* The matcher's part of C26: without DOTALL in the pattern's and the call's
\* flags the match fails; with it in either place the group is absorbed, and
\* the match succeeds when the rest of the pattern follows the group.
MatcherNewlinePolicy ==
    (op \in MatchOps /\ GroupWithNewlineAtMarker) =>
        IF "DOTALL" \in pattern.flags \cup args.flags
        THEN From(string, CloseOf(string, 1)) = <<"b">> =>
                /\ IsMatch(result)
                /\ result.span = <<0, Len(string)>>
                /\ result.group = string
        ELSE result = None

\* A scan by find_right_bracket with crossline = false that returned a number.
ScannedWithinLine ==
    /\ op = "find_right_bracket"
    /\ ~args.crossline
    /\ result.kind = "int"

\* C26 as written: the matcher's newline policy, and find_right_bracket with
\* crossline = false returns -1 exactly when a newline occurs before the depth
\* returns to 0.
C26_AsWritten ==
    /\ MatcherNewlinePolicy
    /\ ScannedWithinLine =>
          (result.val = -1 <=> NewlineBeforeClose(string, args.start))

\* C26: the matcher's newline policy, and find_right_bracket with
\* crossline = false returns -1 exactly when a newline occurs before the depth
\* returns to 0 or the text ends before it does.
C26_NewlinePolicy ==
    /\ MatcherNewlinePolicy
    /\ ScannedWithinLine =>
          (result.val = -1 <=>
              NewlineBeforeClose(string, args.start) \/ ~Closes(string, args.start))

\* match("a{}b", "a(\n)b", DOTALL) has absorbed the group.
C26_Witness ==
    /\ op = "match"
    /\ string = <<"a", "(", NL, ")", "b">>
    /\ pattern.flags = {}
    /\ args.flags = DOTALL
    /\ result = SmartMatch(<<0, 5>>, string)

\* C27: for a pattern built by smart.SmartPattern, with the default or a
\* custom mark, smart.search and smart.match complete with a match or the
\* null result for every subject.
C27_SmartMarkerIsRead ==
    (op \in {"search", "match"} /\ pattern.cls = "smart.SmartPattern") =>
        result = None \/ IsMatch(result)

====
